---- MODULE Spec2Model ----
(***************************************************************************)
(* SignUpController (src/src/presentation/controllers/signup.ts).          *)
(*                                                                         *)
(* One controller instance holds two injected collaborators, an            *)
(* EmailValidator and an AddAccount use case.  handle(httpRequest) runs    *)
(* the required-field loop, the password confirmation check, the email     *)
(* validation and the account creation inside one try/catch.               *)
(*                                                                         *)
(* The state is the controller's two fields plus what one observes of the  *)
(* latest call of handle: the request, how the call completed, the value   *)
(* it returned, and what the spies on the two collaborators recorded.      *)
(***************************************************************************)
EXTENDS Naturals, Sequences, FiniteSets

VARIABLES
    emailValidator,   \* this.emailValidator: the stub's answer for each email
    addAccount,       \* this.addAccount: what the stub's add does
    httpRequest,      \* the argument of the latest call of handle
    completion,       \* "none" (no call yet) | "return" | "throw"
    httpResponse,     \* the value the latest call returned
    thrown,           \* the error the latest call propagated ("" if none)
    callOrder,        \* collaborator methods in the order the latest call invoked them
    isValidArgs,      \* arguments of emailValidator.isValid in the latest call
    addArgs,          \* arguments of addAccount.add in the latest call
    calls             \* how many times handle has been called on this instance

vars == <<emailValidator, addAccount, httpRequest, completion, httpResponse,
          thrown, callOrder, isValidArgs, addArgs, calls>>

\* The longest sequence of calls of handle on one instance that is explored.
MaxCalls == 2

(***************************************************************************)
(* The universe of requests.  A body is a mapping from some of the four    *)
(* keys to strings: a key may be absent, hold the empty string (falsy) or  *)
(* hold one of two non-empty strings.                                      *)
(***************************************************************************)
Strings == {"", "a", "b"}

\* The strings that can reach isValid: the stubs answer for each of them.
Emails == Strings \ {""}

Fields == {"email", "name", "password", "passwordConfirmation"}

Bodies == UNION {[S -> Strings] : S \in SUBSET Fields}

\* The value of an expression that has no value: what a function returns when
\* control falls off its end, distinct from every HttpResponse.
undefined == [undefined |-> TRUE]

\* What a stubbed isValid does for one email, and what a stubbed add does.
IsValidBehaviours == {"true", "false", "throw"}

AddBehaviours == {"return", "throw"}

(***************************************************************************)
(* ../errors and ../helpers/http-helper: the response constructors.        *)
(***************************************************************************)
MissingParamError(field) == [kind |-> "MissingParam", field |-> field]

InvalidParamError(field) == [kind |-> "InvalidParam", field |-> field]

ServerError == [kind |-> "ServerError"]

badRequest(error) == [statusCode |-> 400, body |-> error]

serverError == [statusCode |-> 500, body |-> ServerError]

(***************************************************************************)
(* handle, signup.ts lines 15-36.                                          *)
(***************************************************************************)
\* Mutants of requiredFields (see the claims that name them).
requiredFieldsNoName == <<"email", "password", "passwordConfirmation">>

requiredFieldsNameFirst == <<"name", "email", "password", "passwordConfirmation">>

\* line 17
requiredFields == <<"email", "name", "password", "passwordConfirmation">>

\* line 19: !httpRequest.body[field], for a body whose values are strings
Falsy(body, field) == field \notin DOMAIN body \/ body[field] = ""

\* lines 18-22: the index in requiredFields of the first falsy field at or
\* after i, 0 when the loop ends without returning
RECURSIVE CheckRequired(_, _)
CheckRequired(body, i) ==
    IF i > Len(requiredFields) THEN 0
    ELSE IF Falsy(body, requiredFields[i]) THEN i
    ELSE CheckRequired(body, i + 1)

\* How a run of the try block ends, with what the spies saw.
Returned(response, order, validated, added) ==
    [completion |-> "return", response |-> response, error |-> "",
     order |-> order, isValidArgs |-> validated, addArgs |-> added]

Threw(error, order, validated, added) ==
    [completion |-> "throw", response |-> undefined, error |-> error,
     order |-> order, isValidArgs |-> validated, addArgs |-> added]

PasswordMismatchNever(body) == FALSE

\* line 23: a destructured key the body does not hold is undefined
Get(body, field) == IF field \in DOMAIN body THEN body[field] ELSE undefined

\* line 24
PasswordMismatch(body) == Get(body, "password") # Get(body, "passwordConfirmation")

EmailArgumentName(body) == Get(body, "name")

\* line 27: the argument of isValid
EmailArgument(body) == Get(body, "email")

AccountInputWholeBody(body) == body

\* line 32: the argument of add
AccountInput(body) ==
    [email |-> Get(body, "email"), name |-> Get(body, "name"),
     password |-> Get(body, "password")]

\* Mutant of isValid: a validator error swallowed at the call.
isValidSwallowed(email) ==
    IF emailValidator[email] = "throw" THEN "true" ELSE emailValidator[email]

\* line 27: the call this.emailValidator.isValid(email)
isValid(email) == emailValidator[email]

\* line 32: the call this.addAccount.add(account)
add(account) == addAccount

\* line 32 to the end of the try block: nothing is returned after add
AddStep(body, validated) ==
    LET account == AccountInput(body) IN
    IF add(account) = "throw"
    THEN Threw("add_error", <<"isValid", "add">>, validated, <<account>>)
    ELSE Returned(undefined, <<"isValid", "add">>, validated, <<account>>)

EmailStepAddFirst(body) ==
    LET account == AccountInput(body)
        email == EmailArgument(body)
    IN  IF add(account) = "throw"
        THEN Threw("add_error", <<"add">>, <<>>, <<account>>)
        ELSE IF isValid(email) = "throw"
        THEN Threw("isValid_error", <<"add", "isValid">>, <<email>>, <<account>>)
        ELSE IF isValid(email) = "false"
        THEN Returned(badRequest(InvalidParamError("email")),
                      <<"add", "isValid">>, <<email>>, <<account>>)
        ELSE Returned(undefined, <<"add", "isValid">>, <<email>>, <<account>>)

\* lines 27-32
EmailStep(body) ==
    LET email == EmailArgument(body) IN
    IF isValid(email) = "throw"
    THEN Threw("isValid_error", <<"isValid">>, <<email>>, <<>>)
    ELSE IF isValid(email) = "false"
    THEN Returned(badRequest(InvalidParamError("email")),
                  <<"isValid">>, <<email>>, <<>>)
    ELSE AddStep(body, <<email>>)

\* lines 17-32: the try block
TryBlock(body) ==
    LET i == CheckRequired(body, 1) IN
    IF i # 0
    THEN Returned(badRequest(MissingParamError(requiredFields[i])),
                  <<>>, <<>>, <<>>)
    ELSE IF PasswordMismatch(body)
    THEN Returned(badRequest(InvalidParamError("passwordConfirmation")),
                  <<>>, <<>>, <<>>)
    ELSE EmailStep(body)

CatchRethrow(t) == t

\* lines 33-35: catch (error) { return serverError() }
Catch(t) ==
    [t EXCEPT !.completion = "return", !.response = serverError, !.error = ""]

\* lines 15-36
handle(request) ==
    LET t == TryBlock(request.body) IN
    IF t.completion = "throw" THEN Catch(t) ELSE t

(***************************************************************************)
(* The state machine: a controller is constructed with two stubs, then     *)
(* handle is called any number of times with any request.                  *)
(***************************************************************************)
\* lines 10-13 and the test file's makeSut
Init ==
    /\ emailValidator \in [Emails -> IsValidBehaviours]
    /\ addAccount \in AddBehaviours
    /\ calls = 0
    /\ httpRequest = [body |-> <<>>]
    /\ completion = "none"
    /\ httpResponse = undefined
    /\ thrown = ""
    /\ callOrder = <<>>
    /\ isValidArgs = <<>>
    /\ addArgs = <<>>

\* sut.handle(request)
Handle(request) ==
    LET r == handle(request) IN
    /\ calls < MaxCalls
    /\ calls' = calls + 1
    /\ httpRequest' = request
    /\ completion' = r.completion
    /\ httpResponse' = r.response
    /\ thrown' = r.error
    /\ callOrder' = r.order
    /\ isValidArgs' = r.isValidArgs
    /\ addArgs' = r.addArgs
    /\ UNCHANGED <<emailValidator, addAccount>>

Next == \E body \in Bodies : Handle([body |-> body])

Spec == Init /\ [][Next]_vars

TypeOK ==
    /\ emailValidator \in [Emails -> IsValidBehaviours]
    /\ addAccount \in AddBehaviours
    /\ calls \in 0..MaxCalls
    /\ httpRequest.body \in Bodies
    /\ completion \in {"none", "return", "throw"}
    /\ thrown \in {"", "isValid_error", "add_error"}
    /\ Len(callOrder) <= 2

(***************************************************************************)
(* Observations of the latest call, used to state the properties.          *)
(***************************************************************************)
Called == completion # "none"

ReqBody == httpRequest.body

\* every key is in the body
AllPresent == DOMAIN ReqBody = Fields

\* every key is in the body with a non-empty string
AllTruthy == \A f \in Fields : f \in DOMAIN ReqBody /\ ReqBody[f] # ""

PasswordsEqual == ReqBody["password"] = ReqBody["passwordConfirmation"]

\* the call returned a 400 whose body is the error `kind` naming `field`
Returned400(kind, field) ==
    /\ completion = "return"
    /\ httpResponse # undefined
    /\ httpResponse.statusCode = 400
    /\ httpResponse.body.kind = kind
    /\ httpResponse.body.field = field

\* the call returned a 500 whose body is the bare ServerError
Returned500 ==
    /\ completion = "return"
    /\ thrown = ""
    /\ httpResponse # undefined
    /\ httpResponse.statusCode = 500
    /\ httpResponse.body = [kind |-> "ServerError"]

NoCollaboratorCalled == callOrder = <<>> /\ isValidArgs = <<>> /\ addArgs = <<>>

\* the request passes the field checks, the password check and the validator
PassesAllChecks ==
    /\ Called
    /\ AllTruthy
    /\ PasswordsEqual
    /\ emailValidator[ReqBody["email"]] = "true"

\* the first key, in the order email, name, password, passwordConfirmation,
\* that is absent from the body or empty in it
FirstFalsy ==
    IF "email" \notin DOMAIN ReqBody \/ ReqBody["email"] = "" THEN "email"
    ELSE IF "name" \notin DOMAIN ReqBody \/ ReqBody["name"] = "" THEN "name"
    ELSE IF "password" \notin DOMAIN ReqBody \/ ReqBody["password"] = ""
    THEN "password"
    ELSE "passwordConfirmation"

\* the body holds every key but f, each with a non-empty string
OnlyOmitted(f) ==
    /\ DOMAIN ReqBody = Fields \ {f}
    /\ \A g \in Fields \ {f} : ReqBody[g] # ""

(***************************************************************************)
(* The properties.                                                         *)
(***************************************************************************)

\* C1: when exactly one of the four fields is omitted and the other three are
\* present and non-empty, handle returns 400 with a MissingParam body naming
\* that field, and calls neither collaborator.
C1_OmittedFieldIsMissingParam ==
    \A f \in Fields :
        (Called /\ OnlyOmitted(f)) =>
            (Returned400("MissingParam", f) /\ NoCollaboratorCalled)

C1_Witness ==
    /\ Called
    /\ OnlyOmitted("name")
    /\ PasswordsEqual
    /\ emailValidator[ReqBody["email"]] = "true"
    /\ Returned400("MissingParam", "name")

\* C2: when the request passes all checks, add is invoked exactly once, with
\* exactly the submitted email, name and password and no passwordConfirmation.
C2_AddCalledOnceWithAccount ==
    PassesAllChecks =>
        /\ addArgs = <<[email |-> ReqBody["email"], name |-> ReqBody["name"],
                        password |-> ReqBody["password"]]>>
        /\ DOMAIN addArgs[1] = {"email", "name", "password"}
        /\ Cardinality({i \in DOMAIN callOrder : callOrder[i] = "add"}) = 1

C2_Witness ==
    /\ PassesAllChecks
    /\ ReqBody["email"] # ReqBody["name"]
    /\ ReqBody["name"] # ReqBody["password"]
    /\ Len(addArgs) = 1
    /\ addArgs[1].email = ReqBody["email"]

\* C3: every call of handle ends having returned an HttpResponse, a
\* statusCode and a body, also when all checks pass and add returns normally.
C3_HandleReturnsResponse ==
    Called =>
        /\ completion = "return"
        /\ httpResponse # undefined
        /\ DOMAIN httpResponse = {"body", "statusCode"}

\* C4: with all four fields present and the passwords equal, when isValid
\* returns false handle returns 400 with an InvalidParam body naming email,
\* and isValid was invoked with exactly the submitted email.
C4_InvalidEmailIs400 ==
    (Called /\ AllPresent /\ PasswordsEqual) =>
        /\ (AllTruthy /\ emailValidator[ReqBody["email"]] = "false") =>
              isValidArgs # <<>>
        /\ (isValidArgs # <<>> /\ emailValidator[isValidArgs[1]] = "false") =>
              /\ Returned400("InvalidParam", "email")
              /\ isValidArgs = <<ReqBody["email"]>>
              /\ addArgs = <<>>
        /\ isValidArgs # <<>> => isValidArgs = <<ReqBody["email"]>>

C4_Witness ==
    /\ Called
    /\ AllTruthy
    /\ PasswordsEqual
    /\ ReqBody["email"] # ReqBody["name"]
    /\ emailValidator[ReqBody["email"]] = "false"
    /\ emailValidator[ReqBody["name"]] = "true"
    /\ isValidArgs = <<ReqBody["email"]>>
    /\ Returned400("InvalidParam", "email")

\* C5 as stated: with all four fields present and password different from
\* passwordConfirmation, handle returns 400 InvalidParam(passwordConfirmation).
C5_Original ==
    (Called /\ AllPresent /\ ~PasswordsEqual) =>
        Returned400("InvalidParam", "passwordConfirmation")

\* C5 amended: with all four fields present and non-empty and password
\* different from passwordConfirmation, handle returns 400 with an
\* InvalidParam body naming passwordConfirmation and consults neither
\* collaborator, whatever the validator would answer for the email.
C5_MismatchIs400 ==
    (Called /\ AllTruthy /\ ~PasswordsEqual) =>
        (Returned400("InvalidParam", "passwordConfirmation")
            /\ NoCollaboratorCalled)

C5_Witness ==
    /\ Called
    /\ AllTruthy
    /\ ReqBody["password"] = "a"
    /\ ReqBody["passwordConfirmation"] = "b"
    /\ emailValidator[ReqBody["email"]] = "throw"
    /\ Returned400("InvalidParam", "passwordConfirmation")

\* C6: when the request reaches the email check and isValid raises, handle
\* returns 500 with a ServerError body and add is not invoked.
C6_ValidatorThrowsIs500 ==
    /\ (Called /\ AllTruthy /\ PasswordsEqual
            /\ emailValidator[ReqBody["email"]] = "throw") =>
          (isValidArgs = <<ReqBody["email"]>> /\ Returned500 /\ addArgs = <<>>
              /\ callOrder = <<"isValid">>)
    /\ (Called /\ isValidArgs # <<>>
            /\ emailValidator[isValidArgs[1]] = "throw") =>
          (Returned500 /\ addArgs = <<>> /\ callOrder = <<"isValid">>)

C6_Witness ==
    /\ Called
    /\ AllTruthy
    /\ PasswordsEqual
    /\ emailValidator[ReqBody["email"]] = "throw"
    /\ addAccount = "return"
    /\ isValidArgs = <<ReqBody["email"]>>
    /\ Returned500

\* C7: when the request passes all checks and add raises, handle returns 500
\* with the bare ServerError body: the call returns, nothing is thrown to
\* the caller and the body holds nothing but its kind.
C7_AddThrowsIs500 ==
    (PassesAllChecks /\ addAccount = "throw") =>
        /\ Len(addArgs) = 1
        /\ completion = "return"
        /\ thrown = ""
        /\ httpResponse = [statusCode |-> 500, body |-> [kind |-> "ServerError"]]

C7_Witness ==
    /\ PassesAllChecks
    /\ addAccount = "throw"
    /\ Len(addArgs) = 1
    /\ Returned500

\* C9: when one or more required fields are absent or empty, handle returns
\* 400 MissingParam naming the first such field in the order email, name,
\* password, passwordConfirmation, before the password comparison and
\* before any collaborator is consulted.
C9_FirstMissingFieldWins ==
    (Called /\ ~AllTruthy) =>
        (Returned400("MissingParam", FirstFalsy) /\ NoCollaboratorCalled)

C9_Witness ==
    /\ Called
    /\ DOMAIN ReqBody = {"email", "name", "password"}
    /\ ReqBody["email"] = "a"
    /\ ReqBody["name"] = ""
    /\ ReqBody["password"] = "b"
    /\ emailValidator["a"] = "false"
    /\ Returned400("MissingParam", "name")

\* C10: in every call each collaborator is invoked at most once; isValid is
\* not invoked when a required field is missing or the passwords differ; add
\* is invoked only after isValid was invoked in the same call and returned
\* true.
C10_CollaboratorCallDiscipline ==
    Called =>
        /\ callOrder \in {<<>>, <<"isValid">>, <<"isValid", "add">>}
        /\ Len(isValidArgs) =
              Cardinality({i \in DOMAIN callOrder : callOrder[i] = "isValid"})
        /\ Len(addArgs) =
              Cardinality({i \in DOMAIN callOrder : callOrder[i] = "add"})
        /\ (~AllTruthy \/ ~PasswordsEqual) => NoCollaboratorCalled
        /\ addArgs # <<>> =>
              (isValidArgs # <<>> /\ emailValidator[isValidArgs[1]] = "true")

C10_Witness ==
    /\ Called
    /\ callOrder = <<"isValid", "add">>
    /\ Len(isValidArgs) = 1
    /\ Len(addArgs) = 1
    /\ addAccount = "throw"
====
